---- MODULE Spec2Model ----
(***************************************************************************)
(* Model of the Podlink worker (src/src/index.ts): one request travelling  *)
(* through the fetch handler.  Strings are sequences of code points, so    *)
(* that normalisation, containment, UTF-8 and base64 are computed, not     *)
(* assumed.  A JSON value that may be missing or of another type is a      *)
(* record [type, value]; a nullable result is a sequence of length <= 1.   *)
(***************************************************************************)
EXTENDS Integers, Sequences, FiniteSets, TLC

VARIABLES
    pc,          \* position of the handler
    request,     \* the incoming Request: method, body parse result, body fields
    podcast,     \* `podcast` of the handler: <<>> (not set / null) or <<candidate>>
    episodes,    \* `episodes` of the handler
    episode,     \* `episode` of the handler: <<>> or <<item>>
    responses,   \* the Responses the handler has returned
    searchCalls, \* number of requests sent to the directory
    feedCalls,   \* number of requests sent to the feed server
    directory,   \* what the directory call came to
    feed,        \* what the feed call came to
    fnInput,     \* input of the function under test (function specifications)
    fnOutput     \* its result

vars == <<pc, request, podcast, episodes, episode, responses, searchCalls,
          feedCalls, directory, feed, fnInput, fnOutput>>

(* ------------------------------ bounds -------------------------------- *)

MaxResults == 2

MaxEpisodes == 6

(* ----------------------------- strings -------------------------------- *)

\* String.prototype.toLowerCase, on the code points below 256
LowerChar(c) ==
    IF (c >= 65 /\ c <= 90) \/ (c >= 192 /\ c <= 222 /\ c # 215) THEN c + 32 ELSE c

toLowerCase(s) == [i \in 1..Len(s) |-> LowerChar(s[i])]

\* the characters trim() strips and \s matches
IsSpace(c) ==
    c \in {9, 10, 11, 12, 13, 32, 160, 5760, 8232, 8233, 8239, 8287, 12288, 65279}
    \/ (c >= 8192 /\ c <= 8202)

RECURSIVE trimStart(_)
trimStart(s) ==
    IF s # <<>> /\ IsSpace(Head(s)) THEN trimStart(Tail(s)) ELSE s

RECURSIVE trimEnd(_)
trimEnd(s) ==
    IF s # <<>> /\ IsSpace(s[Len(s)]) THEN trimEnd(SubSeq(s, 1, Len(s) - 1)) ELSE s

trim(s) == trimEnd(trimStart(s))

\* s.replace(/\s+/g, " "): every maximal run of whitespace becomes one space
RECURSIVE collapseWhitespace(_)
collapseWhitespace(s) ==
    IF s = <<>> THEN <<>>
    ELSE IF IsSpace(Head(s))
         THEN <<32>> \o collapseWhitespace(trimStart(s))
         ELSE <<Head(s)>> \o collapseWhitespace(Tail(s))

normalizeText(text) == collapseWhitespace(trim(toLowerCase(text)))

\* String.prototype.includes
includes(a, b) ==
    \E i \in 0..(Len(a) - Len(b)) : SubSeq(a, i + 1, i + Len(b)) = b

fuzzyMatch(a, b) ==
    LET normA == normalizeText(a)
        normB == normalizeText(b)
    IN  normA = normB \/ includes(normA, normB) \/ includes(normB, normA)

extractGuid(guid) ==
    IF guid.type = "string" THEN guid.value ELSE guid.value.text

(* ------------------------------ base64 -------------------------------- *)

\* TextEncoder.encode of one code point (UTF-8)
Utf8(c) ==
    IF c < 128 THEN <<c>>
    ELSE IF c < 2048 THEN <<192 + (c \div 64), 128 + (c % 64)>>
    ELSE <<224 + (c \div 4096), 128 + ((c \div 64) % 64), 128 + (c % 64)>>

RECURSIVE TextEncode(_)
TextEncode(s) ==
    IF s = <<>> THEN <<>> ELSE Utf8(Head(s)) \o TextEncode(Tail(s))

\* the base64 alphabet: A-Z a-z 0-9 + /
B64Char(n) ==
    IF n < 26 THEN 65 + n
    ELSE IF n < 52 THEN 97 + (n - 26)
    ELSE IF n < 62 THEN 48 + (n - 52)
    ELSE IF n = 62 THEN 43 ELSE 47

\* btoa on a byte string: three bytes to four characters, = padding
RECURSIVE btoa(_)
btoa(d) ==
    IF Len(d) = 0 THEN <<>>
    ELSE IF Len(d) = 1 THEN
        <<B64Char(d[1] \div 4), B64Char((d[1] % 4) * 16), 61, 61>>
    ELSE IF Len(d) = 2 THEN
        <<B64Char(d[1] \div 4),
          B64Char((d[1] % 4) * 16 + (d[2] \div 16)),
          B64Char((d[2] % 16) * 4), 61>>
    ELSE
        <<B64Char(d[1] \div 4),
          B64Char((d[1] % 4) * 16 + (d[2] \div 16)),
          B64Char((d[2] % 16) * 4 + (d[3] \div 64)),
          B64Char(d[3] % 64)>> \o btoa(SubSeq(d, 4, Len(d)))

replaceChar(s, from, to) == [i \in 1..Len(s) |-> IF s[i] = from THEN to ELSE s[i]]

\* s.replace(/=+$/, "")
RECURSIVE stripPadding(_)
stripPadding(s) ==
    IF s # <<>> /\ s[Len(s)] = 61 THEN stripPadding(SubSeq(s, 1, Len(s) - 1)) ELSE s

\* a slip: the padding is kept
toUrlSafeBase64_keepPadding(input) ==
    replaceChar(replaceChar(btoa(TextEncode(input)), 43, 45), 47, 95)

toUrlSafeBase64(input) ==
    LET data == TextEncode(input)
        base64 == btoa(data)
    IN  stripPadding(replaceChar(replaceChar(base64, 43, 45), 47, 95))

\* a number in a template literal: its base-10 digits
RECURSIVE NumberToString(_)
NumberToString(n) ==
    IF n < 10 THEN <<48 + n>> ELSE NumberToString(n \div 10) \o <<48 + (n % 10)>>

\* "https://pod.link/"
PodLinkPrefix ==
    <<104, 116, 116, 112, 115, 58, 47, 47, 112, 111, 100, 46, 108, 105, 110, 107, 47>>

\* "/episode/"
EpisodeSegment == <<47, 101, 112, 105, 115, 111, 100, 101, 47>>

buildPodlinkUrl(collectionId, base64Guid) ==
    PodLinkPrefix \o NumberToString(collectionId) \o EpisodeSegment \o base64Guid

(* ------------------------- values and inputs --------------------------- *)

Undefined == [type |-> "undefined", value |-> <<>>]

String(s) == [type |-> "string", value |-> s]

Number(n) == [type |-> "number", value |-> n]

\* JavaScript's !v for the values above
Falsy(v) ==
    \/ v.type = "undefined"
    \/ (v.type = "string" /\ v.value = <<>>)
    \/ (v.type = "number" /\ v.value = 0)

\* sequences over S of length lo..hi
SeqsOf(S, lo, hi) == UNION {[1..k -> S] : k \in lo..hi}

\* show names a caller sends: " Ab", "x y"
ShowNames == {<<32, 65, 98>>, <<120, 32, 121>>}

\* episode titles a caller sends: "E<tab> 1", "q r", "  "
EpisodeTitles == {<<69, 9, 32, 49>>, <<113, 32, 114>>, <<32, 32>>}

BodyShowNames == {Undefined, Number(7), String(<<>>)} \cup {String(s) : s \in ShowNames}

BodyEpisodeTitles ==
    {Undefined, Number(7), String(<<>>)} \cup {String(s) : s \in EpisodeTitles}

Requests ==
    {[method |-> m, jsonOk |-> TRUE, showName |-> Undefined, episodeTitle |-> Undefined] :
        m \in {"OPTIONS", "GET"}}
    \cup {[method |-> "POST", jsonOk |-> FALSE, showName |-> Undefined,
           episodeTitle |-> Undefined]}
    \cup [method : {"POST"}, jsonOk : {TRUE}, showName : BodyShowNames,
          episodeTitle : BodyEpisodeTitles]

\* collectionName values of the directory: "AB", "ab c", "x"
CollectionNames == {<<65, 66>>, <<97, 98, 32, 99>>, <<120>>}

CollectionIds == {7, 1204}

\* feedUrl of a result: missing, "", "u"
FeedUrls == {Undefined, String(<<>>), String(<<117>>)}

ApplePodcastResults ==
    [collectionId : CollectionIds, collectionName : CollectionNames, feedUrl : FeedUrls]

\* the directory reports resultCount as the number of results it returns
AppleSearchResponses ==
    {[resultCount |-> Len(r), results |-> r] :
        r \in SeqsOf(ApplePodcastResults, 0, MaxResults)}

NoData == [resultCount |-> 0, results |-> <<>>]

\* what the fetch of the search URL can come to: a rejected fetch, a
\* non-success status, a body that is not JSON, a search response
DirectoryReplies ==
    {[network |-> FALSE, status |-> 200, jsonOk |-> TRUE, data |-> d] :
        d \in AppleSearchResponses}
    \cup {[network |-> TRUE, status |-> 0, jsonOk |-> FALSE, data |-> NoData],
          [network |-> FALSE, status |-> 503, jsonOk |-> TRUE, data |-> NoData],
          [network |-> FALSE, status |-> 200, jsonOk |-> FALSE, data |-> NoData]}

\* feed items: titles "E 1 x", "e  1", "q"; guids {#text: "e-acute???"}, ">>>a", ""
RSSItems ==
    {[title |-> <<69, 32, 49, 32, 120>>,
      guid |-> [type |-> "object", value |-> [text |-> <<233, 63, 63, 63>>]]],
     [title |-> <<101, 32, 32, 49>>,
      guid |-> [type |-> "string", value |-> <<62, 62, 62, 97>>]],
     [title |-> <<113>>,
      guid |-> [type |-> "string", value |-> <<>>]]}

\* channel.item as the parser yields it: missing, one item, an array of items
ChannelItems ==
    {[type |-> "undefined", value |-> <<>>]}
    \cup {[type |-> "object", value |-> <<i>>] : i \in RSSItems}
    \cup {[type |-> "array", value |-> s] : s \in SeqsOf(RSSItems, 2, MaxEpisodes)}

NoItem == [type |-> "undefined", value |-> <<>>]

\* what the fetch of the feed can come to: a rejected fetch, a non-success
\* status, a document without rss or without channel, a channel
FeedReplies ==
    {[network |-> FALSE, status |-> 200, rss |-> TRUE, channel |-> TRUE, item |-> i] :
        i \in ChannelItems}
    \cup {[network |-> TRUE, status |-> 0, rss |-> FALSE, channel |-> FALSE, item |-> NoItem],
          [network |-> FALSE, status |-> 404, rss |-> FALSE, channel |-> FALSE, item |-> NoItem],
          [network |-> FALSE, status |-> 200, rss |-> FALSE, channel |-> FALSE, item |-> NoItem],
          [network |-> FALSE, status |-> 200, rss |-> TRUE, channel |-> FALSE, item |-> NoItem]}

(* --------------------------- the functions ----------------------------- *)

\* Response.ok
ResponseOk(status) == status >= 200 /\ status <= 299

Throw(text, args) == [threw |-> TRUE, error |-> [text |-> text, args |-> args], value |-> <<>>]

Return(v) == [threw |-> FALSE, error |-> [text |-> "", args |-> <<>>], value |-> v]

\* Array.prototype.find, given the indices I at which the predicate holds:
\* <<>> (undefined) or <<the element at the least of them>>
find(s, I) ==
    IF I = {} THEN <<>> ELSE <<s[CHOOSE i \in I : \A j \in I : i <= j]>>

\* a slip: the fuzzy test is tried before the exact one
selectPodcast_fuzzyFirst(data, name) ==
    IF data.resultCount = 0 \/ Len(data.results) = 0 THEN <<>>
    ELSE
      LET fuzzyMatchResult ==
              find(data.results,
                   {i \in 1..Len(data.results) :
                       fuzzyMatch(data.results[i].collectionName, name)})
      IN  IF fuzzyMatchResult # <<>> THEN fuzzyMatchResult ELSE <<data.results[1]>>

\* lines 112-131: the choice among the results
selectPodcast(data, name) ==
    IF data.resultCount = 0 \/ Len(data.results) = 0 THEN <<>>
    ELSE
      LET exactMatch ==
              find(data.results,
                   {i \in 1..Len(data.results) :
                       normalizeText(data.results[i].collectionName) = normalizeText(name)})
          fuzzyMatchResult ==
              find(data.results,
                   {i \in 1..Len(data.results) :
                       fuzzyMatch(data.results[i].collectionName, name)})
      IN  IF exactMatch # <<>> THEN exactMatch
          ELSE IF fuzzyMatchResult # <<>> THEN fuzzyMatchResult
          ELSE <<data.results[1]>>

\* a slip: a non-success status is read as an empty result
searchApplePodcasts_okIgnored(name, reply) ==
    IF reply.network THEN Throw("fetch failed", <<>>)
    ELSE IF ~ResponseOk(reply.status) THEN Return(<<>>)
    ELSE IF ~reply.jsonOk THEN Throw("Unexpected token in JSON", <<>>)
    ELSE Return(selectPodcast(reply.data, name))

searchApplePodcasts(name, reply) ==
    IF reply.network THEN Throw("fetch failed", <<>>)
    ELSE IF ~ResponseOk(reply.status) THEN Throw("Apple Search API error: ", <<reply.status>>)
    ELSE IF ~reply.jsonOk THEN Throw("Unexpected token in JSON", <<>>)
    ELSE Return(selectPodcast(reply.data, name))

fetchAndParseRSSFeed(feedUrl, reply) ==
    IF reply.network THEN Throw("fetch failed", <<>>)
    ELSE IF ~ResponseOk(reply.status) THEN Throw("Failed to fetch RSS feed: ", <<reply.status>>)
    ELSE IF ~(reply.rss /\ reply.channel) THEN Throw("Invalid RSS feed structure", <<>>)
    ELSE IF reply.item.type = "undefined" THEN Return(<<>>)
    ELSE IF reply.item.type = "array" THEN Return(reply.item.value)
    ELSE Return(<<reply.item.value[1]>>)

\* a slip: the show search's third tier, the first of the list, copied here
findEpisode_firstFallback(eps, title) ==
    LET exactMatch ==
            find(eps, {i \in 1..Len(eps) :
                          normalizeText(eps[i].title) = normalizeText(title)})
        fuzzyMatchResult ==
            find(eps, {i \in 1..Len(eps) : fuzzyMatch(eps[i].title, title)})
    IN  IF exactMatch # <<>> THEN exactMatch
        ELSE IF fuzzyMatchResult # <<>> THEN fuzzyMatchResult
        ELSE <<eps[1]>>

findEpisode(eps, title) ==
    LET exactMatch ==
            find(eps, {i \in 1..Len(eps) :
                          normalizeText(eps[i].title) = normalizeText(title)})
        fuzzyMatchResult ==
            find(eps, {i \in 1..Len(eps) : fuzzyMatch(eps[i].title, title)})
    IN  IF exactMatch # <<>> THEN exactMatch ELSE fuzzyMatchResult

jsonResponse(data, status) == [status |-> status, body |-> data]

\* line 307: episodes.slice(0, 5).map((ep) => ep.title)
HintLimit == 5

\* a slip: the slice is forgotten
availableEpisodes_all(eps) == [i \in 1..Len(eps) |-> eps[i].title]

availableEpisodes(eps) ==
    LET n == IF Len(eps) < HintLimit THEN Len(eps) ELSE HintLimit
    IN  [i \in 1..n |-> eps[i].title]

\* a slip: a throw is reported as not found
catchResponse_404(error) ==
    jsonResponse([error |-> "Internal server error", message |-> error], 404)

\* a slip: the message is left out
catchResponse_noMessage(error) ==
    jsonResponse([error |-> "Internal server error"], 500)

\* lines 331-344: the catch block
catchResponse(error) ==
    jsonResponse([error |-> "Internal server error", message |-> error], 500)

(* ---------------------------- the handler ------------------------------ *)

NoFn == <<>>

Init ==
    /\ pc = "Received"
    /\ request \in Requests
    /\ podcast = <<>>
    /\ episodes = <<>>
    /\ episode = <<>>
    /\ responses = <<>>
    /\ searchCalls = 0
    /\ feedCalls = 0
    /\ directory = "NotCalled"
    /\ feed = "NotCalled"
    /\ fnInput = NoFn
    /\ fnOutput = NoFn

\* `return jsonResponse(...)` of a failure: the handler is over
Fail(response) ==
    /\ responses' = Append(responses, response)
    /\ pc' = "Error"

showName == request.showName.value

episodeTitle == request.episodeTitle.value

\* lines 213-260: method dispatch, body parsing and validation
Validate ==
    /\ pc = "Received"
    /\ IF request.method = "OPTIONS" THEN
            /\ responses' = Append(responses, [status |-> 204, body |-> <<>>])
            /\ pc' = "Preflight"
       ELSE IF request.method # "POST" THEN
            Fail(jsonResponse([error |-> "Method not allowed. Use POST."], 405))
       ELSE IF ~request.jsonOk THEN
            Fail(jsonResponse([error |-> "Invalid JSON body"], 400))
       ELSE IF Falsy(request.showName) \/ request.showName.type # "string" THEN
            Fail(jsonResponse([error |-> "Missing or invalid 'showName' field"], 400))
       ELSE IF Falsy(request.episodeTitle) \/ request.episodeTitle.type # "string" THEN
            Fail(jsonResponse([error |-> "Missing or invalid 'episodeTitle' field"], 400))
       ELSE /\ pc' = "Start"
            /\ UNCHANGED responses
    /\ UNCHANGED <<request, podcast, episodes, episode, searchCalls, feedCalls,
                   directory, feed, fnInput, fnOutput>>

\* what a directory reply amounts to
DirectoryOutcome(reply) ==
    IF reply.network \/ ~ResponseOk(reply.status) \/ ~reply.jsonOk THEN "Unavailable"
    ELSE IF reply.data.resultCount = 0 \/ Len(reply.data.results) = 0 THEN "NoResults"
    ELSE "Results"

\* lines 262-284 (step 1), with the catch block for a throw
Search ==
    /\ pc = "Start"
    /\ \E reply \in DirectoryReplies :
         LET r == searchApplePodcasts(showName, reply)
         IN  /\ searchCalls' = searchCalls + 1
             /\ directory' = DirectoryOutcome(reply)
             /\ IF r.threw THEN
                     /\ Fail(catchResponse(r.error))
                     /\ UNCHANGED podcast
                ELSE IF r.value = <<>> THEN
                     /\ Fail(jsonResponse(
                            [error |-> "Podcast not found",
                             message |-> [text |-> "No podcast found matching ",
                                          args |-> <<showName>>]], 404))
                     /\ podcast' = r.value
                ELSE IF Falsy(r.value[1].feedUrl) THEN
                     /\ Fail(jsonResponse(
                            [error |-> "No feed URL",
                             message |-> [text |-> "Podcast has no RSS feed URL",
                                          args |-> <<r.value[1].collectionName>>]], 404))
                     /\ podcast' = r.value
                ELSE /\ podcast' = r.value
                     /\ pc' = "ShowResolved"
                     /\ UNCHANGED responses
    /\ UNCHANGED <<request, episodes, episode, feedCalls, feed, fnInput, fnOutput>>

\* what a feed reply amounts to
FeedOutcome(reply) ==
    IF reply.network \/ ~ResponseOk(reply.status) THEN "FeedUnavailable"
    ELSE IF ~(reply.rss /\ reply.channel) THEN "MalformedFeed"
    ELSE "Parsed"

\* a slip: a failed feed fetch is tried again
FetchFeed_retry ==
    /\ pc = "ShowResolved"
    /\ feedCalls < 3
    /\ \E reply \in FeedReplies :
         LET r == fetchAndParseRSSFeed(podcast[1].feedUrl.value, reply)
         IN  /\ feedCalls' = feedCalls + 1
             /\ feed' = FeedOutcome(reply)
             /\ IF r.threw THEN
                     UNCHANGED <<pc, responses, episodes>>
                ELSE IF Len(r.value) = 0 THEN
                     /\ Fail(jsonResponse(
                            [error |-> "No episodes",
                             message |-> [text |-> "Podcast has no episodes",
                                          args |-> <<podcast[1].collectionName>>]], 404))
                     /\ episodes' = r.value
                ELSE /\ episodes' = r.value
                     /\ pc' = "FeedRetrieved"
                     /\ UNCHANGED responses
    /\ UNCHANGED <<request, podcast, episode, searchCalls, directory, fnInput, fnOutput>>

\* lines 286-297 (step 2), with the catch block for a throw
FetchFeed ==
    /\ pc = "ShowResolved"
    /\ \E reply \in FeedReplies :
         LET r == fetchAndParseRSSFeed(podcast[1].feedUrl.value, reply)
         IN  /\ feedCalls' = feedCalls + 1
             /\ feed' = FeedOutcome(reply)
             /\ IF r.threw THEN
                     /\ Fail(catchResponse(r.error))
                     /\ UNCHANGED episodes
                ELSE IF Len(r.value) = 0 THEN
                     /\ Fail(jsonResponse(
                            [error |-> "No episodes",
                             message |-> [text |-> "Podcast has no episodes",
                                          args |-> <<podcast[1].collectionName>>]], 404))
                     /\ episodes' = r.value
                ELSE /\ episodes' = r.value
                     /\ pc' = "FeedRetrieved"
                     /\ UNCHANGED responses
    /\ UNCHANGED <<request, podcast, episode, searchCalls, directory, fnInput, fnOutput>>

\* lines 299-311 (step 3)
FindEpisode ==
    /\ pc = "FeedRetrieved"
    /\ LET found == findEpisode(episodes, episodeTitle)
       IN  /\ episode' = found
           /\ IF found = <<>> THEN
                   Fail(jsonResponse(
                       [error |-> "Episode not found",
                        message |-> [text |-> "No episode found matching ",
                                     args |-> <<episodeTitle, podcast[1].collectionName>>],
                        availableEpisodes |-> availableEpisodes(episodes)], 404))
              ELSE /\ pc' = "EpisodeResolved"
                   /\ UNCHANGED responses
    /\ UNCHANGED <<request, podcast, episodes, searchCalls, feedCalls, directory,
                   feed, fnInput, fnOutput>>

\* lines 313-330 (steps 4 and 5)
BuildLink ==
    /\ pc = "EpisodeResolved"
    /\ LET guid == extractGuid(episode[1].guid)
           base64Guid == toUrlSafeBase64(guid)
           podlinkUrl == buildPodlinkUrl(podcast[1].collectionId, base64Guid)
       IN  responses' = Append(responses, jsonResponse(
               [podlinkUrl |-> podlinkUrl,
                podcast |-> [name |-> podcast[1].collectionName,
                             appleId |-> podcast[1].collectionId],
                episode |-> [title |-> episode[1].title, guid |-> guid]], 200))
    /\ pc' = "Done"
    /\ UNCHANGED <<request, podcast, episodes, episode, searchCalls, feedCalls,
                   directory, feed, fnInput, fnOutput>>

Next == Validate \/ Search \/ FetchFeed \/ FindEpisode \/ BuildLink

Spec == Init /\ [][Next]_vars

(* ---- searchApplePodcasts on its own: every show name, every reply ---- *)

InitSearch ==
    /\ pc = "Function"
    /\ request = [method |-> "POST", jsonOk |-> TRUE, showName |-> Undefined,
                  episodeTitle |-> Undefined]
    /\ podcast = <<>>
    /\ episodes = <<>>
    /\ episode = <<>>
    /\ responses = <<>>
    /\ searchCalls = 0
    /\ feedCalls = 0
    /\ directory = "NotCalled"
    /\ feed = "NotCalled"
    /\ fnInput \in {<<[showName |-> n, reply |-> r]>> : n \in ShowNames, r \in DirectoryReplies}
    /\ fnOutput = NoFn

ApplySearch ==
    /\ pc = "Function"
    /\ fnOutput = NoFn
    /\ fnOutput' = <<searchApplePodcasts(fnInput[1].showName, fnInput[1].reply)>>
    /\ UNCHANGED <<pc, request, podcast, episodes, episode, responses, searchCalls,
                   feedCalls, directory, feed, fnInput>>

SpecSearch == InitSearch /\ [][ApplySearch]_vars

(* ------------------------------ claims --------------------------------- *)

\* the response of a finished request
Response == responses[1]

Finished == pc \in {"Done", "Error"}

\* the selected episode's identifier as a plain string
Identifier(ep) == IF ep.guid.type = "object" THEN ep.guid.value.text ELSE ep.guid.value

\* C1 as stated: a feed that cannot be retrieved or has no channel container
\* ends the request with status 404.
C1_FeedFailureIs404 ==
    feed \in {"FeedUnavailable", "MalformedFeed"} =>
        /\ pc = "Error"
        /\ Response.status = 404

\* C1 amended: after the search returned a candidate with a feed URL, a feed
\* that cannot be retrieved or has no channel container ends the request with
\* the catch-all failure: status 500, "Internal server error", with a message.
C1_FeedFailureIs500 ==
    feed \in {"FeedUnavailable", "MalformedFeed"} =>
        /\ pc = "Error"
        /\ Len(responses) = 1
        /\ Response.status = 500
        /\ Response.body.error = "Internal server error"
        /\ "message" \in DOMAIN Response.body
        /\ directory = "Results"
        /\ ~Falsy(podcast[1].feedUrl)

C1_Witness ==
    /\ feed = "MalformedFeed"
    /\ pc = "Error"
    /\ ~Falsy(podcast[1].feedUrl)
    /\ Response.status = 500

Transitions ==
    {<<"Start", "ShowResolved">>, <<"ShowResolved", "FeedRetrieved">>,
     <<"FeedRetrieved", "EpisodeResolved">>, <<"EpisodeResolved", "Done">>,
     <<"Start", "Error">>, <<"ShowResolved", "Error">>, <<"FeedRetrieved", "Error">>,
     <<"EpisodeResolved", "Error">>,
     <<"Received", "Start">>, <<"Received", "Error">>, <<"Received", "Preflight">>}

C2_Positions ==
    /\ searchCalls <= 1
    /\ feedCalls <= 1
    /\ Len(responses) <= 1
    /\ Finished => Len(responses) = 1
    /\ ~Finished /\ pc # "Preflight" => responses = <<>>
    /\ pc \in {"Received", "Start"} => searchCalls = 0
    /\ pc \in {"Received", "Start", "ShowResolved"} => feedCalls = 0 /\ episodes = <<>>
    /\ pc \in {"ShowResolved", "FeedRetrieved", "EpisodeResolved", "Done"} =>
          /\ searchCalls = 1
          /\ podcast # <<>>
          /\ podcast[1].feedUrl.type = "string"
          /\ podcast[1].feedUrl.value # <<>>
    /\ pc \in {"FeedRetrieved", "EpisodeResolved", "Done"} =>
          /\ feedCalls = 1
          /\ episodes # <<>>
    /\ pc \in {"Received", "Start", "ShowResolved", "FeedRetrieved"} => episode = <<>>
    /\ pc \in {"EpisodeResolved", "Done"} => episode # <<>>

C2_Steps ==
    /\ ~Finished
    /\ pc' # pc
    /\ <<pc, pc'>> \in Transitions
    /\ searchCalls' # searchCalls => pc = "Start"
    /\ feedCalls' # feedCalls =>
          /\ pc = "ShowResolved"
          /\ directory = "Results"
          /\ ~Falsy(podcast[1].feedUrl)
    /\ episode' # episode => pc = "FeedRetrieved" /\ episodes # <<>>

\* C2: a request moves only along Start -> ShowResolved -> FeedRetrieved ->
\* EpisodeResolved -> Done or into Error; the directory is asked at most once,
\* the feed at most once and only for a candidate with a non-empty feedUrl,
\* matching only on a non-empty episode list, nothing is retried, Done and
\* Error are final, and a finished request has exactly one response.
C2_StateMachine == [] C2_Positions /\ [][C2_Steps]_vars

C2_Witness ==
    /\ pc = "Done"
    /\ searchCalls = 1
    /\ feedCalls = 1
    /\ Len(responses) = 1

\* the URL-safe alphabet: A-Z a-z 0-9 - _
UrlAlphabet ==
    [i \in 1..26 |-> 64 + i] \o [i \in 1..26 |-> 96 + i] \o [i \in 1..10 |-> 47 + i]
        \o <<45, 95>>

\* bit k (from 0, most significant first) of a byte string, 0 past its end
BitOf(bytes, k) ==
    IF k >= 8 * Len(bytes) THEN 0
    ELSE (bytes[(k \div 8) + 1] \div (2 ^ (7 - (k % 8)))) % 2

\* the unpadded base64url token of a byte string, six bits a character
TokenOf(bytes) ==
    [j \in 1..((8 * Len(bytes) + 5) \div 6) |->
        UrlAlphabet[1 + 32 * BitOf(bytes, 6 * j - 6) + 16 * BitOf(bytes, 6 * j - 5)
                      + 8 * BitOf(bytes, 6 * j - 4) + 4 * BitOf(bytes, 6 * j - 3)
                      + 2 * BitOf(bytes, 6 * j - 2) + BitOf(bytes, 6 * j - 1)]]

\* the number a string of decimal digits denotes
RECURSIVE DecimalValue(_)
DecimalValue(d) ==
    IF d = <<>> THEN 0 ELSE 10 * DecimalValue(SubSeq(d, 1, Len(d) - 1)) + (d[Len(d)] - 48)

IsDecimal(d, n) ==
    /\ d # <<>>
    /\ \A i \in 1..Len(d) : d[i] >= 48 /\ d[i] <= 57
    /\ Len(d) > 1 => d[1] # 48
    /\ DecimalValue(d) = n

\* C3: a request that reaches Done answers 200 with podlinkUrl =
\* "https://pod.link/" + the selected candidate's id in base 10 + "/episode/" +
\* the encoded identifier of the selected episode, and with the candidate's
\* name and id and the episode's title and plain identifier as they came.
C3_DonePayload ==
    pc = "Done" =>
        LET p == podcast[1]
            e == episode[1]
            token == TokenOf(TextEncode(Identifier(e)))
            url == Response.body.podlinkUrl
            digits == SubSeq(url, Len(PodLinkPrefix) + 1,
                             Len(url) - Len(token) - Len(EpisodeSegment))
        IN  /\ Response.status = 200
            /\ \E i \in 1..Len(episodes) : episodes[i] = e
            /\ IsDecimal(digits, p.collectionId)
            /\ url = PodLinkPrefix \o digits \o EpisodeSegment \o token
            /\ Response.body.podcast.name = p.collectionName
            /\ Response.body.podcast.appleId = p.collectionId
            /\ Response.body.episode.title = e.title
            /\ Response.body.episode.guid = Identifier(e)

C3_Witness ==
    /\ pc = "Done"
    /\ episode[1].guid.type = "object"
    /\ Response.body.episode.title # normalizeText(Response.body.episode.title)
    /\ Response.body.podcast.name # normalizeText(Response.body.podcast.name)
    /\ Response.body.podcast.appleId > 9

\* the least element of a non-empty set of indices
Least(I) == CHOOSE i \in I : \A j \in I : i <= j

Matched ==
    \/ pc \in {"EpisodeResolved", "Done"}
    \/ (pc = "Error" /\ feed = "Parsed" /\ episodes # <<>>)

ExactEpisodes ==
    {i \in 1..Len(episodes) : normalizeText(episodes[i].title) = normalizeText(episodeTitle)}

ContainingEpisodes ==
    {i \in 1..Len(episodes) :
        \/ includes(normalizeText(episodes[i].title), normalizeText(episodeTitle))
        \/ includes(normalizeText(episodeTitle), normalizeText(episodes[i].title))}

\* C5: the episode found is the first whose title is normalized-equal to the
\* target; failing that the first whose normalized title contains the
\* normalized target or is contained in it; failing that there is none,
\* never the first of the list.
C5_EpisodeSelection ==
    Matched =>
        episode = IF ExactEpisodes # {} THEN <<episodes[Least(ExactEpisodes)]>>
                  ELSE IF ContainingEpisodes # {}
                       THEN <<episodes[Least(ContainingEpisodes)]>>
                       ELSE <<>>

C5_Witness ==
    /\ pc = "EpisodeResolved"
    /\ 1 \in ContainingEpisodes
    /\ 1 \notin ExactEpisodes
    /\ ExactEpisodes # {}
    /\ episode = <<episodes[Least(ExactEpisodes)]>>
    /\ episode[1] # episodes[1]

\* C6 as stated: a request reaches Done only when the selected episode's
\* identifier, in plain-string form, is a non-empty string.
C6_DoneOnlyWithIdentifier ==
    pc = "Done" => Identifier(episode[1]) # <<>>

\* C7 as stated: every failure response carries both an error code and a
\* message.
C7_EveryFailureHasMessage ==
    \A i \in 1..Len(responses) :
        responses[i].status >= 400 =>
            {"error", "message"} \subseteq DOMAIN responses[i].body

\* C7 amended: every failure response carries an error text; those of status
\* 404 and 500 carry a message as well, those of status 400 and 405 do not.
C7_FailurePayload ==
    \A i \in 1..Len(responses) :
        responses[i].status >= 400 =>
            /\ responses[i].status \in {400, 404, 405, 500}
            /\ "error" \in DOMAIN responses[i].body
            /\ ("message" \in DOMAIN responses[i].body) <=> (responses[i].status \in {404, 500})

C7_Witness ==
    /\ pc = "Error"
    /\ request.method = "POST"
    /\ request.jsonOk
    /\ request.showName.type = "string"
    /\ request.showName.value # <<>>
    /\ request.episodeTitle.type = "undefined"
    /\ Response.status = 400
    /\ DOMAIN Response.body = {"error"}

\* C8: when no episode of a non-empty list of n matches, the response is 404
\* "Episode not found" with the first min(5, n) titles as they came, in feed
\* order; no other response carries availableEpisodes.
C8_Hints ==
    /\ (Matched /\ episode = <<>>) =>
          /\ Response.status = 404
          /\ Response.body.error = "Episode not found"
          /\ Len(Response.body.availableEpisodes)
                = (IF Len(episodes) < 5 THEN Len(episodes) ELSE 5)
          /\ \A i \in 1..Len(Response.body.availableEpisodes) :
                Response.body.availableEpisodes[i] = episodes[i].title
    /\ \A i \in 1..Len(responses) :
          "availableEpisodes" \in DOMAIN responses[i].body =>
              /\ Matched
              /\ episode = <<>>

C8_Witness ==
    /\ Matched
    /\ episode = <<>>
    /\ Len(episodes) > 5
    /\ Len(Response.body.availableEpisodes) = 5
    /\ \E i \in 1..5 : episodes[i].title # normalizeText(episodes[i].title)

\* C9: an unreachable or failing directory ends the request with 500 and not
\* as "Podcast not found"; an answer with no results ends it with 404
\* "Podcast not found"; a selected candidate without a feed URL ends it with
\* 404 "No feed URL"; in all three the feed is never fetched.
C9_DirectoryFailures ==
    /\ directory = "Unavailable" =>
          /\ pc = "Error"
          /\ Response.status = 500
          /\ Response.body.error = "Internal server error"
          /\ feedCalls = 0
    /\ directory = "NoResults" =>
          /\ pc = "Error"
          /\ Response.status = 404
          /\ Response.body.error = "Podcast not found"
          /\ feedCalls = 0
    /\ (directory = "Results" /\ Falsy(podcast[1].feedUrl)) =>
          /\ pc = "Error"
          /\ Response.status = 404
          /\ Response.body.error = "No feed URL"
          /\ feedCalls = 0

C9_Witness ==
    /\ directory = "Unavailable"
    /\ pc = "Error"
    /\ searchCalls = 1
    /\ Response.status = 500

\* C10 as stated: a request whose episodeTitle normalizes to the empty string
\* never resolves to an episode and never reaches Done.
C10_EmptyTitleNeverResolves ==
    (request.episodeTitle.type = "string" /\ normalizeText(episodeTitle) = <<>>) =>
        /\ pc \notin {"EpisodeResolved", "Done"}
        /\ episode = <<>>

====
